---- MODULE Spec2Model ----
(***************************************************************************)
(* CloudAwareDatastore: a facade federating a local and a cloud datastore. *)
(* The model covers the facade's write/delete path (batched write over the *)
(* two tiers plus the DocMetaComparisonIndex update) and the snapshot path *)
(* (initial snapshot latches, two-way reconciliation, replication of       *)
(* committed events into the local tier), and stop().                      *)
(*                                                                         *)
(* A document is a fingerprint with a UUID (its revision); 0 stands for    *)
(* "absent".  UUIDs are totally ordered (UUIDs.compare), here integers.    *)
(***************************************************************************)
EXTENDS Naturals, Integers, Sequences, FiniteSets, TLC

\* ---------------------------------------------------------------- bounds
NumFP == 2
MaxUUID == 2
MaxOps == 1
MaxExt == 1

FPS == 1..NumFP
UUIDS == 1..MaxUUID
Tiers == {"local", "cloud"}
Snaps == {1, 2}
Ops == 1..MaxOps

Other(t) == IF t = "local" THEN "cloud" ELSE "local"

VARIABLES
    local,                 \* this.local's documents: fingerprint -> uuid (0: absent)
    cloud,                 \* this.cloud's documents
    index,                 \* this.docMetaComparisonIndex: fingerprint -> uuid (0: no entry)
    primarySnapshot,       \* this.primarySnapshot: 0 is undefined, else the snapshot's id
    initPc,                \* init(): "idle", "snapshot", "done"
    stopPc,                \* stop(): "idle", "stopping", "done"
    \* --- facade write()/delete() calls
    op,                    \* per call: kind, fp, uuid, pc, the per-tier progress, the signals
    \* --- snapshot() invocations
    pc,                    \* "idle", "await", "sync1", "sync2", "result", "done"
    isPrimary,             \* isPrimarySnapshot
    initialSyncCompleted,
    latch,                 \* [tier -> BOOLEAN]: InitialSnapshotLatch.latch resolved
    syncDocMap,            \* [tier -> [FPS -> uuid]]: InitialSnapshotLatch.syncDocMap
    latchPending,          \* [tier -> Seq(event)]: handle() calls awaiting toSyncDocs
    todo,                  \* fingerprints the running reconciler pass has yet to visit
    repSeen,               \* (fp, uuid) pairs the replicatingListener's dedup has forwarded
    dedupSeen,             \* (fp, uuid) pairs the deduplicatedListener has forwarded
    jobs,                  \* Seq of handleSnapshotSync runs in flight: [ev, idx]
    received,              \* how often the caller's listener got each (fp, uuid), capped at 2
    queue,                 \* [tier -> Seq(event)]: events the tier has yet to deliver
    unsub,                 \* the snapshot's unsubscribe was called: its cloud side is torn down
    observed,              \* per snapshot, [FPS -> uuid]: the greatest uuid of the committed
                           \* mutations its replicatingListener was handed, per fingerprint
    \* --- observers and history
    syncEvents,            \* mutations carried by dispatched SynchronizationEvents (dest local)
    errors,                \* mutations whose application was reported to the errorListener
    copies,                \* reconciler copies made: <<fp, source tier>>
    touched,               \* fingerprints written to or deleted from local through the facade
    owed,                  \* committed cloud mutations delivered after initial sync whose
                           \* post-state local has not reflected and no error was reported for
    local0, cloud0,        \* the tiers' documents when init started
    extOps,                \* external cloud mutations so far
    repWrites,             \* the local writes and deletes handleSnapshotSync made, each with
                           \* what was true of its event when it was delivered
    markers,               \* per snapshot, [tier -> 0..2]: committed, terminated events of
                           \* the tier with no mutation that reached the caller's listener
    abandoned,             \* mutations of an event left unapplied after one of it failed
    duringSync             \* committed created / updated cloud mutations a primary snapshot
                           \* was delivered between the release of its cloud latch and
                           \* initialSyncCompleted, which the local store did not hold then

storeVars == <<local, cloud, index>>
facadeVars == <<primarySnapshot, initPc, stopPc>>
snapVars == <<pc, isPrimary, initialSyncCompleted, latch, syncDocMap, latchPending,
              todo, repSeen, dedupSeen, jobs, received, queue, unsub, observed>>
obsVars == <<repWrites, markers, abandoned, duringSync>>
histVars == <<syncEvents, errors, copies, touched, owed, local0, cloud0, extOps, obsVars>>
vars == <<storeVars, facadeVars, op, snapVars, histVars>>

\* ------------------------------------------------------- events and tiers
Mutation(f, u, t) == [fp |-> f, uuid |-> u, type |-> t]
Event(c, term, ms) == [consistency |-> c, terminated |-> term, muts |-> ms]
Pair(m) == <<m.fp, m.uuid>>

\* The snapshot invocations subscribed to a tier (every started snapshot).
Subscribed(s) == pc[s] # "idle"

\* A tier's events for a change it made itself: the cloud tier reports a write
\* issued through this client first as written, then as committed; the local
\* tier reports it as committed.
WriteEvents(t, m) ==
    IF t = "cloud"
    THEN <<Event("written", TRUE, <<m>>), Event("committed", TRUE, <<m>>)>>
    ELSE <<Event("committed", TRUE, <<m>>)>>

\* The cloud side of snapshot s was torn down by its unsubscribe.
TornDown(s, t) == t = "cloud" /\ unsub[s]

\* q with evs appended to tier t's queue of every subscribed snapshot.
Enq(q, t, evs) ==
    [s \in Snaps |->
        IF Subscribed(s) /\ ~TornDown(s, t)
        THEN [q[s] EXCEPT ![t] = @ \o evs] ELSE q[s]]

\* The mutation a tier reports for writing f@u over a store.
WriteMutation(store, f, u) ==
    Mutation(f, u, IF store[f] = 0 THEN "created" ELSE "updated")

\* The created mutations of a tier's initial snapshot, in fingerprint order.
RECURSIVE DocsFrom(_, _)
DocsFrom(store, f) ==
    IF f > NumFP THEN <<>>
    ELSE (IF store[f] = 0 THEN <<>> ELSE <<Mutation(f, store[f], "created")>>)
         \o DocsFrom(store, f + 1)

\* The events a tier delivers to a newly opened snapshot: the cloud tier its
\* cached documents (written) and then the server's (committed).
InitialEvents(t, store) ==
    IF t = "cloud"
    THEN <<Event("written", TRUE, DocsFrom(store, 1)),
           Event("committed", TRUE, DocsFrom(store, 1))>>
    ELSE <<Event("committed", TRUE, DocsFrom(store, 1))>>

\* Whether the local store reflects mutation m's post-state.
Reflects(loc, m) ==
    IF m.type = "deleted" THEN loc[m.fp] = 0 ELSE loc[m.fp] = m.uuid

OwedAfter(ow, loc, errs) == {m \in ow : ~Reflects(loc, m) /\ m \notin errs}

\* ------------------------------------------- facade write() and delete()
NoOp == [kind |-> "none", fp |-> 0, uuid |-> 0,
         tier |-> [t \in Tiers |-> "idle"],
         written |-> "pending", committed |-> "pending",
         ret |-> "pending", idx |-> FALSE]

\* A tier's written / committed signal (its coordinator's latches), from how far
\* the tier's operation got: "started", "written", "committed", or failed at
\* the written stage ("failedW") or at the committed stage ("failedC").
WrittenSig(ts) ==
    CASE ts \in {"written", "committed", "failedC"} -> "resolved"
      [] ts = "failedW" -> "rejected"
      [] OTHER -> "pending"

CommittedSig(ts) ==
    CASE ts = "committed" -> "resolved"
      [] ts \in {"failedW", "failedC"} -> "rejected"
      [] OTHER -> "pending"

\* The tiers whose operation the two callbacks handed to executeBatchedWrite
\* start: remoteSync calls this.cloud, localSync calls this.local.
StartedTiersCloudOnly(kind) == {"cloud"}
StartedTiers(kind) == {"cloud", "local"}

\* Whether tier t's operation of call o may proceed: each callback starts its
\* tier unconditionally, neither waits for the other tier.
TierUnblockedAfterCloud(o, t) ==
    t = "local" => CommittedSig(op[o].tier["cloud"]) = "resolved"
TierUnblocked(o, t) == TRUE

\* The outcome of DatastoreMutations.executeBatchedWrite's promise: it settles
\* with the caller's committed signal, or with the first rejected stage.
BatchOutcome(o) ==
    CASE op[o].written = "rejected" \/ op[o].committed = "rejected" -> "rejected"
      [] op[o].committed = "resolved" -> "resolved"
      [] OTHER -> "pending"

\* write(): the finally block runs as soon as executeBatchedWrite has returned
\* its promise (the promise is returned, not awaited): putDocInfo(docInfo).
IndexAfterWriteCall(idx, f, u) == [idx EXCEPT ![f] = u]

\* delete(): the finally block after the awaited batched write, on either
\* outcome: docMetaComparisonIndex.remove(fingerprint).
IndexAfterDeleteOnSuccess(outcome, idx, f) ==
    IF outcome = "resolved" THEN [idx EXCEPT ![f] = 0] ELSE idx
IndexAfterDelete(outcome, idx, f) == [idx EXCEPT ![f] = 0]

Unused(o) == op[o].kind = "none" /\ \A o2 \in Ops : o2 < o => op[o2].kind # "none"

Write(o, f, u) ==
    /\ Unused(o)
    /\ op' = [op EXCEPT ![o] =
                [NoOp EXCEPT !.kind = "write", !.fp = f, !.uuid = u,
                             !.tier = [t \in Tiers |->
                                 IF t \in StartedTiers("write") THEN "started" ELSE "idle"],
                             !.idx = TRUE]]
    /\ index' = IndexAfterWriteCall(index, f, u)
    /\ UNCHANGED <<local, cloud, facadeVars, snapVars, histVars>>

Delete(o, f) ==
    /\ Unused(o)
    /\ op' = [op EXCEPT ![o] =
                [NoOp EXCEPT !.kind = "delete", !.fp = f,
                             !.tier = [t \in Tiers |->
                                 IF t \in StartedTiers("delete") THEN "started" ELSE "idle"]]]
    /\ UNCHANGED <<storeVars, facadeVars, snapVars, histVars>>

\* The tier's store after call o's operation took effect on it.
Applied(store, o) ==
    [store EXCEPT ![op[o].fp] = IF op[o].kind = "write" THEN op[o].uuid ELSE 0]

\* The events tier t reports for call o's operation.
OpEvents(t, store, o) ==
    IF op[o].kind = "write"
    THEN WriteEvents(t, WriteMutation(store, op[o].fp, op[o].uuid))
    ELSE IF store[op[o].fp] = 0 THEN <<>>
    ELSE WriteEvents(t, Mutation(op[o].fp, store[op[o].fp], "deleted"))

\* Tier t accepts call o's operation: its written signal resolves.
TierWritten(o, t) ==
    /\ op[o].tier[t] = "started"
    /\ TierUnblocked(o, t)
    /\ op' = [op EXCEPT ![o].tier[t] = "written"]
    /\ IF t = "local"
       THEN /\ local' = Applied(local, o)
            /\ queue' = Enq(queue, t, OpEvents(t, local, o))
            /\ touched' = touched \cup {op[o].fp}
            /\ owed' = OwedAfter(owed, local', errors)
            /\ UNCHANGED cloud
       ELSE /\ cloud' = Applied(cloud, o)
            /\ queue' = Enq(queue, t, OpEvents(t, cloud, o))
            /\ UNCHANGED <<local, touched, owed>>
    /\ UNCHANGED <<index, facadeVars, pc, isPrimary, initialSyncCompleted, latch,
                   syncDocMap, latchPending, todo, repSeen, dedupSeen, jobs, received,
                   unsub, observed, syncEvents, errors, copies, local0, cloud0, extOps,
                   obsVars>>

\* Tier t makes call o's operation visible: its committed signal resolves.
TierCommitted(o, t) ==
    /\ op[o].tier[t] = "written"
    /\ TierUnblocked(o, t)
    /\ op' = [op EXCEPT ![o].tier[t] = "committed"]
    /\ UNCHANGED <<storeVars, facadeVars, snapVars, histVars>>

\* Tier t fails call o's operation at the stage it is in.
TierFail(o, t) ==
    /\ op[o].tier[t] \in {"started", "written"}
    /\ TierUnblocked(o, t)
    /\ op' = [op EXCEPT ![o].tier[t] =
                IF op[o].tier[t] = "started" THEN "failedW" ELSE "failedC"]
    /\ UNCHANGED <<storeVars, facadeVars, snapVars, syncEvents, errors, copies,
                   touched, owed, local0, cloud0, extOps, obsVars>>

\* DatastoreMutations.batched: the caller's signal of a stage follows
\* Promise.all over the two tiers' signals of that stage.
BatchedSignal(a, b) ==
    CASE a = "rejected" \/ b = "rejected" -> "rejected"
      [] a = "resolved" /\ b = "resolved" -> "resolved"
      [] OTHER -> "pending"

CoordWritten(o) ==
    /\ op[o].kind # "none"
    /\ op[o].written = "pending"
    /\ LET r == BatchedSignal(WrittenSig(op[o].tier["cloud"]),
                              WrittenSig(op[o].tier["local"]))
       IN /\ r # "pending"
          /\ op' = [op EXCEPT ![o].written = r]
    /\ UNCHANGED <<storeVars, facadeVars, snapVars, histVars>>

CoordCommitted(o) ==
    /\ op[o].kind # "none"
    /\ op[o].committed = "pending"
    /\ LET r == BatchedSignal(CommittedSig(op[o].tier["cloud"]),
                              CommittedSig(op[o].tier["local"]))
       IN /\ r # "pending"
          /\ op' = [op EXCEPT ![o].committed = r]
    /\ UNCHANGED <<storeVars, facadeVars, snapVars, histVars>>

\* write() settles with the promise it returned.
WriteReturn(o) ==
    /\ op[o].kind = "write"
    /\ op[o].ret = "pending"
    /\ BatchOutcome(o) # "pending"
    /\ op' = [op EXCEPT ![o].ret = BatchOutcome(o)]
    /\ UNCHANGED <<storeVars, facadeVars, snapVars, histVars>>

\* delete() resumes after the awaited batched write, runs finally and returns.
DeleteReturn(o) ==
    /\ op[o].kind = "delete"
    /\ op[o].ret = "pending"
    /\ BatchOutcome(o) # "pending"
    /\ op' = [op EXCEPT ![o].ret = BatchOutcome(o), ![o].idx = TRUE]
    /\ index' = IndexAfterDelete(BatchOutcome(o), index, op[o].fp)
    /\ UNCHANGED <<local, cloud, facadeVars, snapVars, histVars>>

\* ------------------------------------------------------------ snapshot()
PAIRS == FPS \X UUIDS

Min2(a, b) == IF a < b THEN a ELSE b
SetMax(S) == CHOOSE x \in S : \A y \in S : x >= y

\* The caller's docMetaSnapshotEventListener is handed mutations ms.
Receive(rcv, ms) ==
    [p \in PAIRS |->
        IF \E i \in 1..Len(ms) : Pair(ms[i]) = p THEN Min2(rcv[p] + 1, 2) ELSE rcv[p]]

PairsOf(ms) == {Pair(ms[i]) : i \in 1..Len(ms)}
MutsOf(ms) == {ms[i] : i \in 1..Len(ms)}

\* createDeduplicatedListener: the mutations of ms whose (fingerprint, uuid)
\* this listener has not forwarded yet.
DedupKeep(seen, ms) == SelectSeq(ms, LAMBDA m : Pair(m) \notin seen)

\* SyncDocMaps.putAll of an event's SyncDocs into a latch's syncDocMap.
RECURSIVE PutAll(_, _)
PutAll(map, ms) ==
    IF ms = <<>> THEN map
    ELSE PutAll([map EXCEPT ![Head(ms).fp] = Head(ms).uuid], Tail(ms))

Keys(map) == {f \in FPS : map[f] # 0}

RemoveAt(q, i) == SubSeq(q, 1, i - 1) \o SubSeq(q, i + 1, Len(q))

\* const isPrimarySnapshot = this.primarySnapshot === undefined
IsPrimaryAtEntry(ps) == ps = 0

\* handleEvent's guard for running handleSnapshotSync.
ReplicatesIntoBeforeSync(s) == isPrimary[s]
ReplicatesInto(s) == initialSyncCompleted[s] /\ isPrimary[s]

\* The syncDocMap each SyncOrigin is built with: the latch of its own tier.
SyncOriginMapSwapped(s, t) == syncDocMap[s][Other(t)]
SyncOriginMap(s, t) == syncDocMap[s][t]

\* PersistenceLayers.synchronizeFromSyncDocs: the source's document is copied
\* when the target has none or an older one.
NeedsCopy(src, tgt) == tgt = 0 \/ src > tgt

\* The entry of snapshot(): the flag, the two latches, the two tier snapshots.
StartSnapshot(s) ==
    /\ pc[s] = "idle"
    /\ pc' = [pc EXCEPT ![s] = "await"]
    /\ isPrimary' = [isPrimary EXCEPT ![s] = IsPrimaryAtEntry(primarySnapshot)]
    /\ queue' = [queue EXCEPT ![s] =
                   [t \in Tiers |->
                       InitialEvents(t, IF t = "local" THEN local ELSE cloud)]]
    /\ UNCHANGED <<initialSyncCompleted, latch, syncDocMap, latchPending, todo,
                   repSeen, dedupSeen, jobs, received, unsub, observed>>

\* init(): both tiers are initialised, then the primary snapshot is opened.
InitCall ==
    /\ initPc = "idle"
    /\ initPc' = "snapshot"
    /\ StartSnapshot(1)
    /\ UNCHANGED <<storeVars, primarySnapshot, stopPc, op, histVars>>

\* A caller's own snapshot() call.
SnapshotCall(s) ==
    /\ s # 1
    /\ initPc # "idle"
    /\ StartSnapshot(s)
    /\ UNCHANGED <<storeVars, facadeVars, op, histVars>>

\* The greatest uuid per fingerprint among obs and a committed event's mutations.
ObservedAfter(obs, ev) ==
    [f \in FPS |->
        IF ev.consistency # "committed" THEN obs[f]
        ELSE SetMax({obs[f]} \cup {ev.muts[i].uuid :
                                      i \in {k \in 1..Len(ev.muts) : ev.muts[k].fp = f}})]

\* The replicatingListener of s was handed, before m, a committed mutation of
\* m's fingerprint with the same or a greater uuid.
Stale(s, m) == m.uuid <= observed[s][m.fp]

\* The caller's listener of s is handed tier t's event ev: one more marker
\* when ev is committed, terminated and carries no mutation.
MarkersAfter(mk, s, t, ev) ==
    IF ev.consistency = "committed" /\ ev.terminated /\ ev.muts = <<>>
    THEN [mk EXCEPT ![s][t] = Min2(@ + 1, 2)]
    ELSE mk

\* Primary snapshot s is between the release of its cloud latch and the
\* assignment initialSyncCompleted = true.
DuringSync(s) == isPrimary[s] /\ latch[s]["cloud"] /\ ~initialSyncCompleted[s]

\* A tier delivers its next event to the listener createSnapshot installed:
\* replicatingListener(event), then, before initialSyncCompleted, onSnapshot.
Deliver(s, t) ==
    /\ queue[s][t] # <<>>
    /\ LET ev == Head(queue[s][t])
           kept == DedupKeep(repSeen[s], ev.muts)
           sync == ReplicatesInto(s) /\ ev.consistency = "committed"
       IN /\ queue' = [queue EXCEPT ![s][t] = Tail(@)]
          /\ repSeen' = [repSeen EXCEPT ![s] = @ \cup PairsOf(kept)]
          /\ observed' = [observed EXCEPT ![s] = ObservedAfter(@, ev)]
          /\ IF kept = <<>>
             THEN UNCHANGED <<jobs, received, markers>>
             ELSE IF sync
             THEN /\ jobs' = [jobs EXCEPT ![s] =
                                Append(@, [ev |-> [ev EXCEPT !.muts = kept], idx |-> 1,
                                           from |-> t,
                                           synced |-> pc[s] \in {"result", "done"},
                                           stale |-> {m \in MutsOf(kept) : Stale(s, m)},
                                           afterStop |-> stopPc = "done"])]
                  /\ UNCHANGED <<received, markers>>
             ELSE /\ received' = [received EXCEPT ![s] = Receive(@, kept)]
                  /\ markers' = MarkersAfter(markers, s, t, ev)
                  /\ UNCHANGED jobs
          /\ latchPending' =
                IF initialSyncCompleted[s] THEN latchPending
                ELSE [latchPending EXCEPT ![s][t] = Append(@, ev)]
          /\ owed' =
                IF t = "cloud" /\ sync
                THEN OwedAfter(owed \cup MutsOf(ev.muts), local, errors)
                ELSE owed
          /\ duringSync' =
                IF t = "cloud" /\ DuringSync(s) /\ ev.consistency = "committed"
                THEN duringSync \cup {m \in MutsOf(ev.muts) :
                                        m.type # "deleted" /\ ~Reflects(local, m)}
                ELSE duringSync
    /\ UNCHANGED <<storeVars, facadeVars, op, pc, isPrimary, initialSyncCompleted,
                   latch, syncDocMap, todo, dedupSeen, unsub, syncEvents, errors, copies,
                   touched, local0, cloud0, extOps, repWrites, abandoned>>

\* The condition under which InitialSnapshotLatch.handle resolves the latch.
ReleasesOnTerminated(ev) == ev.terminated
Releases(ev) == ev.consistency = "committed" /\ ev.terminated

\* InitialSnapshotLatch.handle resumes after toSyncDocs: putAll, then the
\* latch resolves on a committed, terminated event.
LatchFold(s, t, i) ==
    /\ i \in 1..Len(latchPending[s][t])
    /\ LET ev == latchPending[s][t][i]
       IN /\ syncDocMap' = [syncDocMap EXCEPT ![s][t] = PutAll(@, ev.muts)]
          /\ latch' = [latch EXCEPT ![s][t] = @ \/ Releases(ev)]
          /\ latchPending' = [latchPending EXCEPT ![s][t] = RemoveAt(@, i)]
    /\ UNCHANGED <<storeVars, facadeVars, op, pc, isPrimary, initialSyncCompleted,
                   todo, repSeen, dedupSeen, jobs, received, queue, unsub, observed,
                   histVars>>

\* snapshot() resumes after both latch.get(): the primary snapshot starts the
\* local -> cloud pass, any other snapshot skips reconciliation.
SnapshotLatched(s) ==
    /\ pc[s] = "await"
    /\ latch[s]["local"] /\ latch[s]["cloud"]
    /\ IF isPrimary[s]
       THEN /\ pc' = [pc EXCEPT ![s] = "sync1"]
            /\ todo' = [todo EXCEPT ![s] = Keys(SyncOriginMap(s, "local"))]
            /\ UNCHANGED initialSyncCompleted
       ELSE /\ pc' = [pc EXCEPT ![s] = "result"]
            /\ initialSyncCompleted' = [initialSyncCompleted EXCEPT ![s] = TRUE]
            /\ UNCHANGED todo
    /\ UNCHANGED <<storeVars, facadeVars, op, isPrimary, latch, syncDocMap,
                   latchPending, repSeen, dedupSeen, jobs, received, queue, unsub,
                   observed, histVars>>

SetMin(S) == CHOOSE x \in S : \A y \in S : x <= y

\* One step of synchronizeFromSyncDocs(source, target, deduplicatedListener):
\* the next fingerprint of the source's syncDocMap, or the end of the pass.
SyncStep(s) ==
    /\ pc[s] \in {"sync1", "sync2"}
    /\ LET src == IF pc[s] = "sync1" THEN "local" ELSE "cloud"
           tgt == Other(src)
           srcStore == IF src = "local" THEN local ELSE cloud
           tgtStore == IF tgt = "local" THEN local ELSE cloud
       IN IF todo[s] = {}
          THEN /\ IF pc[s] = "sync1"
                  THEN /\ pc' = [pc EXCEPT ![s] = "sync2"]
                       /\ todo' = [todo EXCEPT ![s] = Keys(SyncOriginMap(s, "cloud"))]
                       /\ UNCHANGED initialSyncCompleted
                  ELSE /\ pc' = [pc EXCEPT ![s] = "result"]
                       /\ initialSyncCompleted' = [initialSyncCompleted EXCEPT ![s] = TRUE]
                       /\ UNCHANGED todo
               /\ UNCHANGED <<local, cloud, queue, dedupSeen, received, copies,
                              touched, owed>>
          ELSE LET f == SetMin(todo[s])
                   S == SyncOriginMap(s, src)[f]
                   T == SyncOriginMap(s, tgt)[f]
                   u == srcStore[f]
               IN /\ todo' = [todo EXCEPT ![s] = @ \ {f}]
                  /\ UNCHANGED <<pc, initialSyncCompleted>>
                  /\ IF NeedsCopy(S, T) /\ u # 0
                     THEN /\ IF tgt = "local"
                             THEN /\ local' = [local EXCEPT ![f] = u]
                                  /\ touched' = touched \cup {f}
                                  /\ owed' = OwedAfter(owed, local', errors)
                                  /\ UNCHANGED cloud
                             ELSE /\ cloud' = [cloud EXCEPT ![f] = u]
                                  /\ UNCHANGED <<local, touched, owed>>
                          /\ queue' = Enq(queue, tgt,
                                          WriteEvents(tgt, WriteMutation(tgtStore, f, u)))
                          /\ copies' = copies \cup {<<f, src>>}
                          /\ LET syn == DedupKeep(dedupSeen[s],
                                            <<Mutation(f, S, IF T = 0 THEN "created"
                                                                       ELSE "updated")>>)
                             IN /\ dedupSeen' = [dedupSeen EXCEPT ![s] = @ \cup PairsOf(syn)]
                                /\ received' = [received EXCEPT ![s] = Receive(@, syn)]
                     ELSE UNCHANGED <<local, cloud, queue, dedupSeen, received, copies,
                                      touched, owed>>
    /\ UNCHANGED <<index, facadeVars, op, isPrimary, latch, syncDocMap, latchPending,
                   repSeen, jobs, unsub, observed, syncEvents, errors, local0, cloud0,
                   extOps, obsVars>>

\* snapshot() returns its SnapshotResult; init() stores it as primarySnapshot.
SnapshotReturn(s) ==
    /\ pc[s] = "result"
    /\ pc' = [pc EXCEPT ![s] = "done"]
    /\ IF s = 1
       THEN primarySnapshot' = s /\ initPc' = "done"
       ELSE UNCHANGED <<primarySnapshot, initPc>>
    /\ UNCHANGED <<storeVars, stopPc, op, isPrimary, initialSyncCompleted, latch,
                   syncDocMap, latchPending, todo, repSeen, dedupSeen, jobs, received,
                   queue, unsub, observed, histVars>>

\* The local store after handleSnapshotSync applied mutation m to it:
\* writeDocMeta for created / updated, delete for deleted.
LocalAfter(loc, m) ==
    [loc EXCEPT ![m.fp] = IF m.type = "deleted" THEN 0 ELSE m.uuid]

\* The events the local tier reports for that application.
LocalEventsFor(loc, m) ==
    IF m.type = "deleted"
    THEN IF loc[m.fp] = 0 THEN <<>>
         ELSE WriteEvents("local", Mutation(m.fp, loc[m.fp], "deleted"))
    ELSE WriteEvents("local", WriteMutation(loc, m.fp, m.uuid))

\* handleSnapshotSync applies the next mutation of an event to the local
\* store; after the last one it dispatches the SynchronizationEvent and
\* handleEvent's finally forwards the event to the caller's listener.
RepStep(s, j) ==
    /\ j \in 1..Len(jobs[s])
    /\ LET job == jobs[s][j]
           m == job.ev.muts[job.idx]
           last == job.idx = Len(job.ev.muts)
       IN /\ local' = LocalAfter(local, m)
          /\ queue' = Enq(queue, "local", LocalEventsFor(local, m))
          /\ touched' = touched \cup {m.fp}
          /\ owed' = OwedAfter(owed, local', errors)
          /\ repWrites' = repWrites \cup
                {[snap |-> s, fp |-> m.fp, from |-> job.from,
                  consistency |-> job.ev.consistency,
                  synced |-> job.synced, stale |-> m \in job.stale,
                  afterStop |-> job.afterStop, overtook |-> j > 1]}
          /\ IF last
             THEN /\ jobs' = [jobs EXCEPT ![s] = RemoveAt(@, j)]
                  /\ syncEvents' = syncEvents \cup MutsOf(job.ev.muts)
                  /\ received' = [received EXCEPT ![s] = Receive(@, job.ev.muts)]
                  /\ markers' = MarkersAfter(markers, s, job.from, job.ev)
             ELSE /\ jobs' = [jobs EXCEPT ![s][j].idx = @ + 1]
                  /\ UNCHANGED <<syncEvents, received, markers>>
    /\ UNCHANGED <<cloud, index, facadeVars, op, pc, isPrimary, initialSyncCompleted,
                   latch, syncDocMap, latchPending, todo, repSeen, dedupSeen, unsub,
                   observed, errors, copies, local0, cloud0, extOps, abandoned,
                   duringSync>>

\* Applying the next mutation fails: the exception leaves the for loop,
\* finally forwards the event, and the catch reports to the errorListener.
RepFail(s, j) ==
    /\ j \in 1..Len(jobs[s])
    /\ LET job == jobs[s][j]
           m == job.ev.muts[job.idx]
       IN /\ errors' = errors \cup {m}
          /\ owed' = OwedAfter(owed, local, errors')
          /\ jobs' = [jobs EXCEPT ![s] = RemoveAt(@, j)]
          /\ received' = [received EXCEPT ![s] = Receive(@, job.ev.muts)]
          /\ markers' = MarkersAfter(markers, s, job.from, job.ev)
          /\ abandoned' = abandoned \cup
                {job.ev.muts[k] : k \in (job.idx + 1)..Len(job.ev.muts)}
    /\ UNCHANGED <<storeVars, facadeVars, op, pc, isPrimary, initialSyncCompleted,
                   latch, syncDocMap, latchPending, todo, repSeen, dedupSeen, queue,
                   unsub, observed, syncEvents, copies, touched, local0, cloud0, extOps,
                   repWrites, duringSync>>

\* ---------------------------------------------------------- environment
\* Another client writes a newer revision of f to the cloud: the cloud tier
\* reports it as committed.
CloudExternalWrite(f, u) ==
    /\ initPc # "idle"
    /\ extOps < MaxExt
    /\ u > cloud[f]
    /\ cloud' = [cloud EXCEPT ![f] = u]
    /\ queue' = Enq(queue, "cloud",
                    <<Event("committed", TRUE, <<WriteMutation(cloud, f, u)>>)>>)
    /\ extOps' = extOps + 1
    /\ UNCHANGED <<local, index, facadeVars, op, pc, isPrimary, initialSyncCompleted,
                   latch, syncDocMap, latchPending, todo, repSeen, dedupSeen, jobs,
                   received, unsub, observed, syncEvents, errors, copies, touched, owed,
                   local0, cloud0, obsVars>>

\* Another client deletes f from the cloud.
CloudExternalDelete(f) ==
    /\ initPc # "idle"
    /\ extOps < MaxExt
    /\ cloud[f] # 0
    /\ cloud' = [cloud EXCEPT ![f] = 0]
    /\ queue' = Enq(queue, "cloud",
                    <<Event("committed", TRUE, <<Mutation(f, cloud[f], "deleted")>>)>>)
    /\ extOps' = extOps + 1
    /\ UNCHANGED <<local, index, facadeVars, op, pc, isPrimary, initialSyncCompleted,
                   latch, syncDocMap, latchPending, todo, repSeen, dedupSeen, jobs,
                   received, unsub, observed, syncEvents, errors, copies, touched, owed,
                   local0, cloud0, obsVars>>

\* The external cloud events a run with several of them may hold.
MaxEvents == MaxExt + 1

\* Another client, holding an older copy, writes an older revision of f to the
\* cloud: the cloud tier reports it as committed.
CloudStaleWrite(f, u) ==
    /\ initPc # "idle"
    /\ extOps < MaxEvents
    /\ u < cloud[f]
    /\ cloud' = [cloud EXCEPT ![f] = u]
    /\ queue' = Enq(queue, "cloud",
                    <<Event("committed", TRUE, <<Mutation(f, u, "updated")>>)>>)
    /\ extOps' = extOps + 1
    /\ UNCHANGED <<local, index, facadeVars, op, pc, isPrimary, initialSyncCompleted,
                   latch, syncDocMap, latchPending, todo, repSeen, dedupSeen, jobs,
                   received, unsub, observed, syncEvents, errors, copies, touched, owed,
                   local0, cloud0, obsVars>>

\* Another client writes newer revisions of two documents in one batch: the
\* cloud tier reports them in one committed event.
CloudExternalBatch(f1, u1, f2, u2) ==
    /\ initPc # "idle"
    /\ extOps < MaxEvents
    /\ f1 < f2
    /\ u1 > cloud[f1]
    /\ u2 > cloud[f2]
    /\ cloud' = [cloud EXCEPT ![f1] = u1, ![f2] = u2]
    /\ queue' = Enq(queue, "cloud",
                    <<Event("committed", TRUE,
                            <<WriteMutation(cloud, f1, u1), WriteMutation(cloud, f2, u2)>>)>>)
    /\ extOps' = extOps + 1
    /\ UNCHANGED <<local, index, facadeVars, op, pc, isPrimary, initialSyncCompleted,
                   latch, syncDocMap, latchPending, todo, repSeen, dedupSeen, jobs,
                   received, unsub, observed, syncEvents, errors, copies, touched, owed,
                   local0, cloud0, obsVars>>

\* The same batch reported in two committed events, the first of which does
\* not terminate the batch.
CloudExternalChunks(f1, u1, f2, u2) ==
    /\ initPc # "idle"
    /\ extOps < MaxExt
    /\ f1 < f2
    /\ u1 > cloud[f1]
    /\ u2 > cloud[f2]
    /\ cloud' = [cloud EXCEPT ![f1] = u1, ![f2] = u2]
    /\ queue' = Enq(queue, "cloud",
                    <<Event("committed", FALSE, <<WriteMutation(cloud, f1, u1)>>),
                      Event("committed", TRUE, <<WriteMutation(cloud, f2, u2)>>)>>)
    /\ extOps' = extOps + 1
    /\ UNCHANGED <<local, index, facadeVars, op, pc, isPrimary, initialSyncCompleted,
                   latch, syncDocMap, latchPending, todo, repSeen, dedupSeen, jobs,
                   received, unsub, observed, syncEvents, errors, copies, touched, owed,
                   local0, cloud0, obsVars>>

\* ---------------------------------------------------------------- stop()
\* stop(): the primary snapshot's unsubscribe is called when primarySnapshot
\* is set (it tears down the cloud-side snapshot), then both tiers are stopped.
StopCall ==
    /\ initPc # "idle"
    /\ stopPc = "idle"
    /\ stopPc' = "stopping"
    /\ IF primarySnapshot # 0
       THEN /\ unsub' = [unsub EXCEPT ![primarySnapshot] = TRUE]
            /\ queue' = [queue EXCEPT ![primarySnapshot]["cloud"] = <<>>]
       ELSE UNCHANGED <<unsub, queue>>
    /\ UNCHANGED <<storeVars, primarySnapshot, initPc, op, pc, isPrimary,
                   initialSyncCompleted, latch, syncDocMap, latchPending, todo, repSeen,
                   dedupSeen, jobs, received, observed, histVars>>

\* stop() returns once both tiers' stop() resolved.
StopReturn ==
    /\ stopPc = "stopping"
    /\ stopPc' = "done"
    /\ UNCHANGED <<storeVars, primarySnapshot, initPc, op, snapVars, histVars>>

\* ------------------------------------------------------ specifications
Stores == [FPS -> 0..MaxUUID]

\* The facade as constructed: no call made, no snapshot open.
InitFacade ==
    /\ local0 = local
    /\ cloud0 = cloud
    /\ primarySnapshot = 0
    /\ initPc = "idle"
    /\ stopPc = "idle"
    /\ op = [o \in Ops |-> NoOp]
    /\ pc = [s \in Snaps |-> "idle"]
    /\ isPrimary = [s \in Snaps |-> FALSE]
    /\ initialSyncCompleted = [s \in Snaps |-> FALSE]
    /\ latch = [s \in Snaps |-> [t \in Tiers |-> FALSE]]
    /\ syncDocMap = [s \in Snaps |-> [t \in Tiers |-> [f \in FPS |-> 0]]]
    /\ latchPending = [s \in Snaps |-> [t \in Tiers |-> <<>>]]
    /\ todo = [s \in Snaps |-> {}]
    /\ repSeen = [s \in Snaps |-> {}]
    /\ dedupSeen = [s \in Snaps |-> {}]
    /\ jobs = [s \in Snaps |-> <<>>]
    /\ received = [s \in Snaps |-> [p \in PAIRS |-> 0]]
    /\ queue = [s \in Snaps |-> [t \in Tiers |-> <<>>]]
    /\ unsub = [s \in Snaps |-> FALSE]
    /\ observed = [s \in Snaps |-> [f \in FPS |-> 0]]
    /\ syncEvents = {}
    /\ errors = {}
    /\ copies = {}
    /\ touched = {}
    /\ owed = {}
    /\ extOps = 0
    /\ repWrites = {}
    /\ markers = [s \in Snaps |-> [t \in Tiers |-> 0]]
    /\ abandoned = {}
    /\ duringSync = {}

\* A new facade over two tiers holding any documents: the index is empty.
Init ==
    /\ local \in Stores
    /\ cloud \in Stores
    /\ index = [f \in FPS |-> 0]
    /\ InitFacade

\* init() with its primary snapshot, the tiers' events, other clients' writes.
Next ==
    \/ InitCall
    \/ \E t \in Tiers : Deliver(1, t)
    \/ \E t \in Tiers, i \in 1..2 : LatchFold(1, t, i)
    \/ SnapshotLatched(1)
    \/ SyncStep(1)
    \/ SnapshotReturn(1)
    \/ \E j \in 1..2 : RepStep(1, j)
    \/ \E j \in 1..2 : RepFail(1, j)
    \/ \E f \in FPS, u \in UUIDS : CloudExternalWrite(f, u)
    \/ \E f \in FPS : CloudExternalDelete(f)

Spec == Init /\ [][Next]_vars

\* init() with its primary snapshot alone: no other client, no failure.
NextReconcile ==
    \/ InitCall
    \/ \E t \in Tiers : Deliver(1, t)
    \/ \E t \in Tiers, i \in 1..2 : LatchFold(1, t, i)
    \/ SnapshotLatched(1)
    \/ SyncStep(1)
    \/ SnapshotReturn(1)

SpecReconcile == Init /\ [][NextReconcile]_vars

\* init() interleaved with a caller's snapshot(), no other client: every event
\* is of the initial snapshots or the echo of a reconciler copy.
NextPrimary ==
    \/ InitCall
    \/ \E s \in Snaps : SnapshotCall(s)
    \/ \E s \in Snaps, t \in Tiers : Deliver(s, t)
    \/ \E s \in Snaps, t \in Tiers, i \in 1..2 : LatchFold(s, t, i)
    \/ \E s \in Snaps : SnapshotLatched(s)
    \/ \E s \in Snaps : SyncStep(s)
    \/ \E s \in Snaps : SnapshotReturn(s)

\* The tiers differ in at most the first fingerprint.
InitPrimary == Init /\ \A f \in FPS \ {1} : local[f] = cloud[f]

SpecPrimary == InitPrimary /\ [][NextPrimary]_vars

\* init() over two tiers in agreement, then other clients' cloud writes (newer,
\* older, batched), their replication into the local tier, and stop().
NextReplicate ==
    \/ InitCall
    \/ \E t \in Tiers : Deliver(1, t)
    \/ \E t \in Tiers, i \in 1..2 : LatchFold(1, t, i)
    \/ SnapshotLatched(1)
    \/ SyncStep(1)
    \/ SnapshotReturn(1)
    \/ \E j \in 1..2 : RepStep(1, j)
    \/ \E j \in 1..2 : RepFail(1, j)
    \/ \E f \in FPS, u \in UUIDS : CloudExternalWrite(f, u)
    \/ \E f \in FPS, u \in UUIDS : CloudStaleWrite(f, u)
    \/ \E f1, f2 \in FPS, u1, u2 \in UUIDS : CloudExternalBatch(f1, u1, f2, u2)
    \/ StopCall
    \/ StopReturn

InitReplicate == Init /\ local = cloud

SpecReplicate == InitReplicate /\ [][NextReplicate]_vars

\* init() over an empty local tier and a cloud tier holding at most the last
\* fingerprint; while snapshot() awaits its latches one batch of another
\* client reaches the cloud in two events.
NextLatch ==
    \/ InitCall
    \/ \E t \in Tiers : Deliver(1, t)
    \/ \E t \in Tiers : \E i \in 1..Len(latchPending[1][t]) : LatchFold(1, t, i)
    \/ SnapshotLatched(1)
    \/ SyncStep(1)
    \/ SnapshotReturn(1)
    \/ \E j \in 1..2 : RepStep(1, j)
    \/ /\ pc[1] = "await"
       /\ extOps = 0
       /\ \E f1, f2 \in FPS, u1, u2 \in UUIDS : CloudExternalChunks(f1, u1, f2, u2)

InitLatch ==
    /\ Init
    /\ \A f \in FPS : local[f] = 0
    /\ \A f \in FPS \ {NumFP} : cloud[f] = 0

SpecLatch == InitLatch /\ [][NextLatch]_vars

\* Facade write() and delete() calls over the two tiers, no snapshot open.
\* The fingerprints are interchangeable in InitWrite: the o-th call is
\* enumerated over the first o of them only.
CallFPS(o) == {f \in FPS : f <= o}

NextWrite ==
    \/ \E o \in Ops : \E f \in CallFPS(o), u \in UUIDS : Write(o, f, u)
    \/ \E o \in Ops : \E f \in CallFPS(o) : Delete(o, f)
    \/ \E o \in Ops, t \in Tiers : TierWritten(o, t)
    \/ \E o \in Ops, t \in Tiers : TierCommitted(o, t)
    \/ \E o \in Ops, t \in Tiers : TierFail(o, t)
    \/ \E o \in Ops : CoordWritten(o)
    \/ \E o \in Ops : CoordCommitted(o)
    \/ \E o \in Ops : WriteReturn(o)
    \/ \E o \in Ops : DeleteReturn(o)

\* A facade every fingerprint was written through at revision 1: both tiers
\* hold it and the index has its entry.
InitWrite ==
    /\ local = [f \in FPS |-> 1]
    /\ cloud = local
    /\ index = local
    /\ InitFacade

SpecWrite == InitWrite /\ [][NextWrite]_vars

\* The facade in use: after init() returned, one write() or delete() call of
\* the application and one cloud write of another client, with the primary
\* snapshot open.
NextLive ==
    \/ InitCall
    \/ \E t \in Tiers : Deliver(1, t)
    \/ \E t \in Tiers, i \in 1..2 : LatchFold(1, t, i)
    \/ SnapshotLatched(1)
    \/ SyncStep(1)
    \/ SnapshotReturn(1)
    \/ \E j \in 1..2 : RepStep(1, j)
    \/ /\ extOps = 0
       /\ \E f \in FPS, u \in UUIDS : CloudExternalWrite(f, u)
    \/ /\ initPc = "done"
       /\ \E f \in CallFPS(1), u \in UUIDS : Write(1, f, u)
    \/ /\ initPc = "done"
       /\ \E f \in CallFPS(1) : Delete(1, f)
    \/ \E o \in Ops, t \in Tiers : TierWritten(o, t)
    \/ \E o \in Ops, t \in Tiers : TierCommitted(o, t)
    \/ \E o \in Ops : CoordWritten(o)
    \/ \E o \in Ops : CoordCommitted(o)
    \/ \E o \in Ops : WriteReturn(o)
    \/ \E o \in Ops : DeleteReturn(o)

\* A new facade over two tiers that hold every fingerprint at revision 1.
InitLive ==
    /\ Init
    /\ local = [f \in FPS |-> 1]
    /\ cloud = local

SpecLive == InitLive /\ [][NextLive]_vars

\* ---------------------------------------------------------- properties
Max2(a, b) == IF a > b THEN a ELSE b

\* No snapshot event, replication or facade call is in flight.
Quiescent ==
    /\ \A s \in Snaps :
          /\ pc[s] \in {"idle", "done"}
          /\ jobs[s] = <<>>
          /\ \A t \in Tiers : queue[s][t] = <<>> /\ latchPending[s][t] = <<>>
    /\ \A o \in Ops : op[o].kind = "none" \/ op[o].ret # "pending"

\* C1: the listener of a primary snapshot never receives the same
\* (fingerprint, uuid) twice, counting the events the replicating listener
\* forwards and the synthetic events of the two reconciler passes.
C1_NoDuplicateDelivery ==
    \A s \in Snaps, p \in PAIRS : isPrimary[s] => received[s][p] <= 1

\* C2: a fingerprint on exactly one tier when init starts is on both tiers
\* when init returns, and a SynchronizationEvent (dest local) was dispatched
\* for it exactly when the tier lacking it was the local one.
C2_InitReconcilesAndReports ==
    (initPc = "done" /\ extOps = 0) =>
        \A f \in FPS :
            ((local0[f] = 0) # (cloud0[f] = 0)) =>
                /\ local[f] # 0
                /\ cloud[f] # 0
                /\ (\E m \in syncEvents : m.fp = f) <=> (local0[f] = 0)

C4_CloudMutationsApplied == Quiescent => owed = {}

\* C5: a federated write or delete starts both tiers; the caller's written
\* signal is resolved only when both tiers' written signals are, and its
\* committed signal only when both tiers' committed signals are.
C5_SignalsAfterBothTiers ==
    \A o \in Ops :
        op[o].kind # "none" =>
            /\ \A t \in Tiers : op[o].tier[t] # "idle"
            /\ op[o].written = "resolved" =>
                   \A t \in Tiers : WrittenSig(op[o].tier[t]) = "resolved"
            /\ op[o].committed = "resolved" =>
                   \A t \in Tiers : CommittedSig(op[o].tier[t]) = "resolved"

\* A call both of whose signals resolved.
C5_Witness ==
    \E o \in Ops : op[o].written = "resolved" /\ op[o].committed = "resolved"

\* The coordinator has delivered every settled stage to the caller's signals.
CoordIdle(o) == ~ENABLED CoordWritten(o) /\ ~ENABLED CoordCommitted(o)

\* C6: when a tier fails at a stage, the caller's signal of that stage is
\* rejected (never resolved), and the other tier's operation was started and
\* can still take its next step to written and to committed.
C6_FailureRejectsOtherTierRuns ==
    \A o \in Ops, t \in Tiers :
        /\ WrittenSig(op[o].tier[t]) = "rejected" =>
               /\ op[o].written # "resolved"
               /\ CoordIdle(o) => op[o].written = "rejected"
        /\ CommittedSig(op[o].tier[t]) = "rejected" =>
               /\ op[o].committed # "resolved"
               /\ CoordIdle(o) => op[o].committed = "rejected"
        /\ op[o].tier[t] \in {"failedW", "failedC"} =>
               /\ op[o].tier[Other(t)] # "idle"
               /\ op[o].tier[Other(t)] = "started" => ENABLED TierWritten(o, Other(t))
               /\ op[o].tier[Other(t)] = "written" => ENABLED TierCommitted(o, Other(t))

\* One tier failed at the written stage, the caller's written signal was
\* rejected, and the other tier went on to committed.
C6_Witness ==
    \E o \in Ops, t \in Tiers :
        /\ op[o].tier[t] = "failedW"
        /\ op[o].written = "rejected"
        /\ op[o].tier[Other(t)] = "committed"

\* C7: in the step in which a delete() call finishes, resolved or rejected,
\* the comparison index has no entry for the deleted fingerprint.
C7_DeleteClearsIndex ==
    [][\A o \in Ops :
          (op[o].kind = "delete" /\ op[o].ret = "pending" /\ op'[o].ret # "pending")
              => index'[op[o].fp] = 0]_vars

\* A delete() that was rejected and whose fingerprint left the index.
C7_Witness ==
    \E o \in Ops :
        /\ op[o].kind = "delete" /\ op[o].ret = "rejected"
        /\ index[op[o].fp] = 0

\* C8: write() updates the comparison index at completion of the batched
\* write: not while the batched write is pending, and always once it settled.
C8_IndexUpdatedAtCompletion ==
    \A o \in Ops :
        op[o].kind = "write" =>
            /\ op[o].idx => BatchOutcome(o) # "pending"
            /\ op[o].ret # "pending" => op[o].idx

\* C9: with nothing in flight, the comparison index agrees with the local
\* store on every fingerprint written to or deleted from local through the
\* facade (write, delete, reconciliation, replication).
C9_IndexAgreesWithLocal ==
    Quiescent => \A f \in touched : index[f] = local[f]

\* C10: at most one snapshot invocation is treated as the primary snapshot.
C10_AtMostOnePrimary ==
    Cardinality({s \in Snaps : pc[s] # "idle" /\ isPrimary[s]}) <= 1

\* C11: once the replicating listener was handed a committed mutation of
\* fingerprint F with uuid U, a later committed mutation of F with uuid
\* U' <= U causes no write to and no delete from the local store.
C11_StaleMutationIsNoOp ==
    \A w \in repWrites : ~w.stale

\* C12: once stop() has returned, no event a tier delivers afterwards makes
\* the replicating listener write to or delete from the local store, also
\* when stop() was called while init() was in progress.
C12_StopReleasesPrimary ==
    \A w \in repWrites : ~w.afterStop

\* C13: with both tiers empty, once the snapshot has completed and nothing is
\* in flight, the reconciler has made no copy in either direction and the
\* caller's listener has received exactly one committed, terminated marker
\* event (carrying no mutation) per tier.
C13_EmptyTiersMarkers ==
    \A s \in Snaps :
        (/\ \A f \in FPS : local0[f] = 0 /\ cloud0[f] = 0
         /\ extOps = 0
         /\ pc[s] = "done"
         /\ Quiescent)
            => /\ copies = {}
               /\ \A t \in Tiers : markers[s][t] = 1

\* C14: snapshot() starts the reconciler, and the reconciler copies, only
\* after both the local and the cloud latch have released; a latch releases
\* only in the handling of a committed event with batch.terminated true; the
\* handling of a written event puts its documents into the syncDocMap and
\* leaves the latch as it was.
C14_ReconcileAfterBothLatches ==
    [][/\ \A s \in Snaps :
             /\ (pc[s] = "await" /\ pc'[s] # "await")
                   => (latch[s]["local"] /\ latch[s]["cloud"])
             /\ pc'[s] \in {"sync1", "sync2"}
                   => (latch'[s]["local"] /\ latch'[s]["cloud"])
             /\ \A t \in Tiers :
                   /\ (~latch[s][t] /\ latch'[s][t]) =>
                         \E i \in 1..Len(latchPending[s][t]) :
                             /\ latchPending[s][t][i].consistency = "committed"
                             /\ latchPending[s][t][i].terminated
                             /\ latchPending'[s][t] = RemoveAt(latchPending[s][t], i)
                   /\ \A i \in 1..Len(latchPending[s][t]) :
                         (/\ latchPending[s][t][i].consistency = "written"
                          /\ latchPending'[s][t] = RemoveAt(latchPending[s][t], i))
                             => /\ syncDocMap'[s][t] =
                                      PutAll(syncDocMap[s][t], latchPending[s][t][i].muts)
                                /\ latch'[s][t] = latch[s][t]
       /\ (copies' # copies) =>
             \E s \in Snaps : /\ pc[s] \in {"sync1", "sync2"}
                              /\ latch[s]["local"] /\ latch[s]["cloud"]]_vars

\* The cloud latch is unreleased and snapshot() cannot go on to reconcile,
\* although a written event (the cloud's cached documents) and a committed
\* event that does not terminate its batch were folded into the cloud
\* syncDocMap and the local latch has released.
C14_Witness ==
    /\ pc[1] = "await"
    /\ latch[1]["local"]
    /\ ~latch[1]["cloud"]
    /\ ~ENABLED SnapshotLatched(1)
    /\ \E f \in FPS : cloud0[f] # 0 /\ syncDocMap[1]["cloud"][f] = cloud0[f]
    /\ \E f \in FPS : syncDocMap[1]["cloud"][f] > cloud0[f]

\* C15: every write to and delete from the local store that the replicating
\* listener makes or has in hand is for an event of consistency committed
\* that was handed to it after both reconciler passes had completed.
C15_ReplicatesCommittedAfterSync ==
    /\ \A w \in repWrites : w.consistency = "committed" /\ w.synced
    /\ \A s \in Snaps : \A j \in 1..Len(jobs[s]) :
          jobs[s][j].ev.consistency = "committed" /\ jobs[s][j].synced

\* After initial sync, another client's committed cloud write was replicated
\* into the local store, while a facade write whose written event from the
\* cloud reached the replicating listener was not.
C15_Witness ==
    /\ repWrites # {}
    /\ \E o \in Ops :
          /\ op[o].kind = "write"
          /\ <<op[o].fp, op[o].uuid>> \in repSeen[1]
          /\ received[1][<<op[o].fp, op[o].uuid>>] = 1
          /\ \A w \in repWrites : w.fp # op[o].fp

\* C16: the replicating listener's handlers are serialized across events: no
\* local write or delete for a mutation of a committed event is made while a
\* committed event delivered before it still has a local write or delete to
\* make.
C16_HandlersSerialized ==
    \A w \in repWrites : ~w.overtook

\* C17: when applying one mutation of a committed event to the local store
\* fails, the error is reported to the error listener and no later mutation
\* of the same event is left unapplied.
C17_FailureContinuesLoop ==
    abandoned = {}

\* C18: no write to and no delete from the local store by the replicating
\* listener is for an event that the local tier's own snapshot delivered.
C18_NoReplicationOfLocalEvents ==
    \A w \in repWrites : w.from # "local"

\* The documents a tier's initial snapshot of the facade's first snapshot()
\* reports: the tier's documents when init started.
InitialDocs(t) == IF t = "local" THEN local0 ELSE cloud0

\* C19: once a tier's latch has released, and until the reconciler passes are
\* over, the tier's syncDocMap stays as it was at the release. With no other
\* client, every event a tier delivers before the release is of its initial
\* snapshot, so the map at the release holds the tier's initial documents.
C19_SyncDocMapFrozen ==
    \A t \in Tiers :
        (latch[1][t] /\ pc[1] \in {"await", "sync1", "sync2"} /\ extOps = 0)
            => syncDocMap[1][t] = InitialDocs(t)

\* C20: a snapshot opened while the facade's first snapshot already exists
\* never runs a reconciler pass, and its replicating listener never writes to
\* or deletes from the local store (so dispatches no SynchronizationEvent).
C20_SecondaryOnlyForwards ==
    \A s \in Snaps \ {1} :
        /\ pc[s] \notin {"sync1", "sync2"}
        /\ jobs[s] = <<>>
        /\ \A w \in repWrites : w.snap # s

\* The handle() call whose resumption turned pending into its successor: the
\* first index whose removal gives the successor.
FoldedAt(before, after) ==
    SetMin({i \in 1..Len(before) : after = RemoveAt(before, i)})

\* C21: in the step in which a tier's latch releases, the tier's syncDocMap
\* holds a document for every mutation of every event the tier delivered
\* before the releasing event: no handle() call started earlier is still
\* awaiting toSyncDocs with a fingerprint the map lacks.
C21_LatchMapComplete ==
    [][\A t \in Tiers :
          (~latch[1][t] /\ latch'[1][t]) =>
             LET before == latchPending[1][t]
                 r == FoldedAt(before, latchPending'[1][t])
             IN \A i \in 1..(r - 1) : \A k \in 1..Len(before[i].muts) :
                    syncDocMap'[1][t][before[i].muts[k].fp] # 0]_vars

\* C22: once nothing is in flight, the local store holds, at the delivered or
\* a later revision, every committed created / updated mutation the cloud
\* tier delivered to the primary snapshot between the release of its cloud
\* latch and initialSyncCompleted: the reconciler or the replicating
\* listener has written it.
C22_NoLostCloudMutation ==
    Quiescent => \A m \in duringSync : local[m.fp] >= m.uuid

====
